---- MODULE Spec2Model ----
(***************************************************************************)
(* Model of mediaserve-common (src/index.js): class service.              *)
(*                                                                         *)
(*   - service.fetch: argument validation, the deadline timer pushed on    *)
(*     this.timers, the awaited transport call, clearTimeout, the awaited  *)
(*     body parse;                                                         *)
(*   - service.exit: coercion, log, the clearTimeout loop, process.exit;   *)
(*   - service.log, service.is.*;                                          *)
(*   - service.Timer: the process.hrtime stopwatch.                        *)
(*                                                                         *)
(* JavaScript runs handlers to completion on one thread, so every action   *)
(* below is one synchronous run between two suspension points (an await,   *)
(* a timer callback, an I/O callback).                                     *)
(*                                                                         *)
(* A timer handle (the Timeout object setTimeout returns) is identified    *)
(* with the fetch call that created it: handle c is the timer of call c.   *)
(* Sequences are 1-based; the source's 0-based array index i is position   *)
(* i + 1.                                                                  *)
(***************************************************************************)
EXTENDS Integers, Sequences, FiniteSets

\* ------------------------------------------------------------------ bounds
MaxCalls == 2        \* fetch invocations in one run
MaxClockSec == 3     \* the stopwatch clock stops advancing past this second
MaxStops == 3        \* stop() results recorded between two baselines

Calls == 1..MaxCalls

\* ------------------------------------------------------- JavaScript values
\* A value is a record [type, chars]; chars is the text of a string, one
\* character per element.
Chr(type, chars) == [type |-> type, chars |-> chars]

V_undefined == Chr("undefined", <<>>)
V_null == Chr("null", <<>>)
V_object == Chr("object", <<>>)
V_GET == Chr("string", <<"G", "E", "T">>)
V_POST == Chr("String", <<"P", "O", "S", "T">>)
V_five == Chr("number", <<"5">>)
V_invalid == Chr("string", <<"{", "i", "n", "v", "a", "l", "i", "d", " ", "j", "s", "o", "n">>)
V_doc == Chr("string", <<"{", "\"", "a", "\"", ":", " ", "[", "1", ",", "t", "r", "u", "e", "]", "}">>)
V_empty == Chr("string", <<>>)

Methods == {V_GET, V_POST, V_five, V_undefined}
Bodies == {V_undefined, V_null, V_object, V_invalid, V_doc, V_empty}

\* JSToString, as JSON.parse and new Error apply it to their argument
JSToString(value) ==
  CASE value.type = "undefined" -> <<"u", "n", "d", "e", "f", "i", "n", "e", "d">>
    [] value.type = "null" -> <<"n", "u", "l", "l">>
    [] value.type = "object" -> <<"[", "o", "b", "j", "e", "c", "t", " ", "O", "b", "j", "e", "c", "t", "]">>
    [] OTHER -> value.chars

\* ------------------------------------------------------------- JSON.parse
\* A recogniser of the JSON grammar: each Parse operator takes the text and
\* a position and returns the position after what it recognised, 0 when the
\* text is not JSON there.  Strings carry no escapes and numbers are
\* integers (the bodies above need neither).
Digits == {"0", "1", "2", "3", "4", "5", "6", "7", "8", "9"}

RECURSIVE SkipWs(_, _)
SkipWs(s, i) == IF i <= Len(s) /\ s[i] = " " THEN SkipWs(s, i + 1) ELSE i

Literal(s, i, lit) ==
  IF i + Len(lit) - 1 <= Len(s) /\ SubSeq(s, i, i + Len(lit) - 1) = lit
  THEN i + Len(lit) ELSE 0

RECURSIVE ScanString(_, _)
ScanString(s, j) ==
  IF j > Len(s) THEN 0
  ELSE IF s[j] = "\"" THEN j + 1
  ELSE ScanString(s, j + 1)

RECURSIVE ScanDigits(_, _)
ScanDigits(s, j) == IF j <= Len(s) /\ s[j] \in Digits THEN ScanDigits(s, j + 1) ELSE j

ParseNumber(s, i) ==
  LET j == IF s[i] = "-" THEN i + 1 ELSE i
  IN  IF j > Len(s) \/ s[j] \notin Digits THEN 0
      ELSE IF s[j] = "0" THEN j + 1
      ELSE ScanDigits(s, j)

RECURSIVE ParseValue(_, _)
RECURSIVE ParseElements(_, _)
RECURSIVE ParseMembers(_, _)

ParseValue(s, i0) ==
  LET i == SkipWs(s, i0)
  IN  IF i > Len(s) THEN 0
      ELSE CASE s[i] = "{" ->
                  LET j == SkipWs(s, i + 1)
                  IN  IF j <= Len(s) /\ s[j] = "}" THEN j + 1 ELSE ParseMembers(s, j)
             [] s[i] = "[" ->
                  LET j == SkipWs(s, i + 1)
                  IN  IF j <= Len(s) /\ s[j] = "]" THEN j + 1 ELSE ParseElements(s, j)
             [] s[i] = "\"" -> ScanString(s, i + 1)
             [] s[i] = "n" -> Literal(s, i, <<"n", "u", "l", "l">>)
             [] s[i] = "t" -> Literal(s, i, <<"t", "r", "u", "e">>)
             [] s[i] = "f" -> Literal(s, i, <<"f", "a", "l", "s", "e">>)
             [] s[i] = "-" \/ s[i] \in Digits -> ParseNumber(s, i)
             [] OTHER -> 0

ParseElements(s, i) ==
  LET k == ParseValue(s, i)
      k2 == SkipWs(s, k)
  IN  IF k = 0 \/ k2 > Len(s) THEN 0
      ELSE IF s[k2] = "," THEN ParseElements(s, k2 + 1)
      ELSE IF s[k2] = "]" THEN k2 + 1
      ELSE 0

ParseMembers(s, i) ==
  LET j == SkipWs(s, i)
      k == IF j <= Len(s) /\ s[j] = "\"" THEN ScanString(s, j + 1) ELSE 0
      k2 == SkipWs(s, k)
      v == IF k # 0 /\ k2 <= Len(s) /\ s[k2] = ":" THEN ParseValue(s, k2 + 1) ELSE 0
      v2 == SkipWs(s, v)
  IN  IF v = 0 \/ v2 > Len(s) THEN 0
      ELSE IF s[v2] = "," THEN ParseMembers(s, v2 + 1)
      ELSE IF s[v2] = "}" THEN v2 + 1
      ELSE 0

\* JSON.parse(value) returns (TRUE) or throws a SyntaxError (FALSE)
JSONparse(value) ==
  LET s == JSToString(value)
      k == ParseValue(s, 1)
  IN  k # 0 /\ SkipWs(s, k) = Len(s) + 1

\* --------------------------------------------------------------- service.is
is_string(value) == value.type = "string" \/ value.type = "String"

is_json_nocatch(value) == TRUE
is_json(value) == JSONparse(value)
is_array(value) == value.type = "array"

is_object(value) == value.type = "object"

is_error(value) == value.type = "Error"

\* ----------------------------------------------------------- exit's inputs
V_fatal == Chr("string", <<"f", "a", "t", "a", "l">>)
V_boom == Chr("Error", <<"b", "o", "o", "m">>)
\* an Error instance whose message property is undefined
V_bare == Chr("ErrorNoMessage", <<>>)

Messages == {V_fatal, V_boom, V_bare, V_undefined, V_object}

\* new Error(message)
NewError(message) ==
  Chr("Error", IF message.type = "undefined" THEN <<>>
               ELSE IF message.type = "ErrorNoMessage" THEN <<"E", "r", "r", "o", "r">>
               ELSE JSToString(message))

\* -------------------------------------------------------------- service.log
\* The record one call of log writes: the console function used, the label
\* printed, and the value logged.
LogNoDetect(message, type) ==
  [ev |-> "log", stream |-> "console.log", level |-> "info", value |-> message]
Log(message, type) ==
  LET wrap == ~is_object(message) /\ ~is_array(message)
      ty == IF wrap /\ is_error(message) THEN "error" ELSE type
  IN  CASE ty = "error" ->
             [ev |-> "log", stream |-> "console.error", level |-> "error", value |-> message]
        [] ty = "debug" ->
             [ev |-> "log", stream |-> "console.debug", level |-> "debug", value |-> message]
        [] OTHER ->
             [ev |-> "log", stream |-> "console.log", level |-> "info", value |-> message]

\* ------------------------------------------------------------------- state
VARIABLES
  timers,      \* this.timers: the handles pushed so far, in push order
  timerState,  \* per handle: "none" (not created), "armed", "fired", "cleared"
  pc,          \* per call: "idle", "inflight" (awaiting fetch), "parsing"
               \* (awaiting response.json), "resolved", "rejected"
  outcome,     \* per call: what the returned promise settled with
  method,      \* per call: the method argument
  body,        \* per call: the body argument
  timeout,     \* per call: the local `timeout`, the 0-based index of its handle
  aborted,     \* per call: controller.signal.aborted
  transport,   \* the calls for which node-fetch was invoked
  running,     \* FALSE once process.exit was called
  out,         \* what service.exit did, in order: log, clearTimeout, exit
  clock,       \* the high-resolution clock, <<seconds, nanoseconds>>
  timestamp,   \* Timer: the closure variable `timestamp`
  started,     \* history: the clock at the Timer's last construction/start/reset
  returned     \* history: what stop() returned since then, in order

svars == <<timers, timerState, pc, outcome, method, body, timeout, aborted, transport, running, out>>
tvars == <<clock, timestamp, started, returned>>
vars == <<timers, timerState, pc, outcome, method, body, timeout, aborted, transport, running, out,
          clock, timestamp, started, returned>>

Range(seq) == {seq[i] : i \in 1..Len(seq)}

\* ------------------------------------------------------------ process.hrtime
NSEC == 1000000000

\* the instants the clock may show when the Timer is constructed
InitClocks == {<<0, 0>>, <<1, 500000000>>}
\* the durations by which the clock advances between two calls
Ticks == {<<0, 500000000>>, <<1, 0>>}

\* process.hrtime(): the clock reading as [seconds, nanoseconds]
Hrtime(now) == now

\* process.hrtime(time): the reading minus `time`, borrowing a second when
\* the nanoseconds go negative
HrtimeDiff(now, time) ==
  LET sec == now[1] - time[1]
      nsec == now[2] - time[2]
  IN  IF nsec < 0 THEN <<sec - 1, nsec + NSEC>> ELSE <<sec, nsec>>

\* timestamp[0]+(timestamp[1]/1000000000) is kept as the pair itself: for
\* 0 <= nanoseconds < 10^9 the sum orders as the pairs do lexicographically
\* and is negative exactly when the seconds are.
Leq(a, b) == a[1] < b[1] \/ (a[1] = b[1] /\ a[2] <= b[2])

Advance(now, d) ==
  LET nsec == now[2] + d[2]
  IN  IF nsec >= NSEC THEN <<now[1] + d[1] + 1, nsec - NSEC>> ELSE <<now[1] + d[1], nsec>>

\* -------------------------------------------------------------------- Init
Init ==
  /\ timers = <<>>
  /\ timerState = [c \in Calls |-> "none"]
  /\ pc = [c \in Calls |-> "idle"]
  /\ outcome = [c \in Calls |-> "none"]
  /\ method = [c \in Calls |-> V_undefined]
  /\ body = [c \in Calls |-> V_undefined]
  /\ timeout = [c \in Calls |-> -1]
  /\ aborted = [c \in Calls |-> FALSE]
  /\ transport = {}
  /\ running = TRUE
  /\ out = <<>>
  /\ clock \in InitClocks
  /\ timestamp = Hrtime(clock)
  /\ started = clock
  /\ returned = <<>>

\* ------------------------------------------------------------ clearTimeout
\* cancels an armed timer; a fired or already cleared one is left as it is
clearTimeout(ts, handle) ==
  [ts EXCEPT ![handle] = IF @ = "armed" THEN "cleared" ELSE @]

\* ------------------------------------------------------------ service.fetch
E_string == "Invalid parameter: expected string"
E_object == "Invalid parameter: expected object"

\* the handle the clear step of call c addresses: this.timers[timeout]
OwnHandleLast(c) == timers[Len(timers)]
OwnHandle(c) == timers[timeout[c] + 1]

\* fetch(address, method, body) up to its first await: the two checks, then
\* the controller, the timer pushed on this.timers, and the transport call.
\* Calls are numbered in the order they are made.
Fetch(c, m, b) ==
  /\ running
  /\ pc[c] = "idle"
  /\ \A d \in Calls : d < c => pc[d] # "idle"
  /\ method' = [method EXCEPT ![c] = m]
  /\ body' = [body EXCEPT ![c] = b]
  /\ IF ~is_string(m)
     THEN /\ pc' = [pc EXCEPT ![c] = "rejected"]
          /\ outcome' = [outcome EXCEPT ![c] = E_string]
          /\ UNCHANGED <<timers, timerState, timeout, transport>>
     ELSE IF ~is_json(b)
     THEN /\ pc' = [pc EXCEPT ![c] = "rejected"]
          /\ outcome' = [outcome EXCEPT ![c] = E_object]
          /\ UNCHANGED <<timers, timerState, timeout, transport>>
     ELSE /\ timers' = Append(timers, c)
          /\ timerState' = [timerState EXCEPT ![c] = "armed"]
          /\ timeout' = [timeout EXCEPT ![c] = Len(timers') - 1]
          /\ transport' = transport \cup {c}
          /\ pc' = [pc EXCEPT ![c] = "inflight"]
          /\ UNCHANGED outcome
  /\ UNCHANGED <<aborted, running, out>>
  /\ UNCHANGED tvars

\* the clear step: clearTimeout(this.timers[timeout])
ClearOwnSkip(c) == timerState
ClearOwn(c) == clearTimeout(timerState, OwnHandle(c))

\* the transport promise resolves with a response: the continuation clears
\* the timer and starts response.json()
TransportResolve(c) ==
  /\ running
  /\ pc[c] = "inflight"
  /\ timerState' = ClearOwn(c)
  /\ pc' = [pc EXCEPT ![c] = "parsing"]
  /\ UNCHANGED <<timers, outcome, method, body, timeout, aborted, transport, running, out>>
  /\ UNCHANGED tvars

\* the transport promise rejects (connection error): catch rethrows
TransportFail(c) ==
  /\ running
  /\ pc[c] = "inflight"
  /\ pc' = [pc EXCEPT ![c] = "rejected"]
  /\ outcome' = [outcome EXCEPT ![c] = "FetchError"]
  /\ UNCHANGED <<timers, timerState, method, body, timeout, aborted, transport, running, out>>
  /\ UNCHANGED tvars

\* the deadline timer of call c fires: controller.abort(); a transport call
\* or body read that is still pending rejects with the abort error, which
\* catch rethrows
TimerFire(c) ==
  /\ running
  /\ timerState[c] = "armed"
  /\ timerState' = [timerState EXCEPT ![c] = "fired"]
  /\ aborted' = [aborted EXCEPT ![c] = TRUE]
  /\ IF pc[c] \in {"inflight", "parsing"}
     THEN /\ pc' = [pc EXCEPT ![c] = "rejected"]
          /\ outcome' = [outcome EXCEPT ![c] = "AbortError"]
     ELSE UNCHANGED <<pc, outcome>>
  /\ UNCHANGED <<timers, method, body, timeout, transport, running, out>>
  /\ UNCHANGED tvars

\* response.json() resolves: return data
ParseOk(c) ==
  /\ running
  /\ pc[c] = "parsing"
  /\ pc' = [pc EXCEPT ![c] = "resolved"]
  /\ outcome' = [outcome EXCEPT ![c] = "data"]
  /\ UNCHANGED <<timers, timerState, method, body, timeout, aborted, transport, running, out>>
  /\ UNCHANGED tvars

\* response.json() rejects (the body is not JSON): catch rethrows
ParseFail(c) ==
  /\ running
  /\ pc[c] = "parsing"
  /\ pc' = [pc EXCEPT ![c] = "rejected"]
  /\ outcome' = [outcome EXCEPT ![c] = "ParseError"]
  /\ UNCHANGED <<timers, timerState, method, body, timeout, aborted, transport, running, out>>
  /\ UNCHANGED tvars

\* ------------------------------------------------------------- service.exit
\* the timers after the loop `for (index = 0; index < this.timers.length; ...)`
RECURSIVE DrainFrom(_, _, _)
DrainFrom(ts, index, length) ==
  IF index < length
  THEN DrainFrom(clearTimeout(ts, timers[index + 1]), index + 1, length)
  ELSE ts

DrainShort(ts) == DrainFrom(ts, 0, Len(timers) - 1)
Drain(ts) == DrainFrom(ts, 0, Len(timers))

\* what exit does, in order
ExitEventsExitFirst(message) ==
  LET error == IF ~is_error(message) THEN NewError(message) ELSE message
  IN  <<Log(error, "none"), [ev |-> "exit", code |-> 1]>>
      \o [i \in 1..Len(timers) |-> [ev |-> "clearTimeout", handle |-> timers[i]]]
ExitEvents(message) ==
  LET error == IF ~is_error(message) THEN NewError(message) ELSE message
  IN  <<Log(error, "none")>>
      \o [i \in 1..Len(timers) |-> [ev |-> "clearTimeout", handle |-> timers[i]]]
      \o <<[ev |-> "exit", code |-> 1]>>

Exit(message) ==
  /\ running
  /\ out' = ExitEvents(message)
  /\ timerState' = Drain(timerState)
  /\ running' = FALSE
  /\ UNCHANGED <<timers, pc, outcome, method, body, timeout, aborted, transport>>
  /\ UNCHANGED tvars

Next ==
  \/ \E c \in Calls, m \in Methods, b \in Bodies : Fetch(c, m, b)
  \/ \E c \in Calls : TransportResolve(c)
  \/ \E c \in Calls : TransportFail(c)
  \/ \E c \in Calls : TimerFire(c)
  \/ \E c \in Calls : ParseOk(c)
  \/ \E c \in Calls : ParseFail(c)
  \/ \E message \in Messages : Exit(message)

Spec == Init /\ [][Next]_vars

\* ------------------------------------------------------------ service.Timer
\* time passes
Tick(d) ==
  /\ clock[1] < MaxClockSec
  /\ clock' = Advance(clock, d)
  /\ UNCHANGED <<timestamp, started, returned>>
  /\ UNCHANGED svars

\* start(): timestamp = process.hrtime()
TimerStart ==
  /\ timestamp' = Hrtime(clock)
  /\ started' = clock
  /\ returned' = <<>>
  /\ UNCHANGED clock
  /\ UNCHANGED svars

\* reset(): timestamp = process.hrtime()
TimerReset ==
  /\ timestamp' = Hrtime(clock)
  /\ started' = clock
  /\ returned' = <<>>
  /\ UNCHANGED clock
  /\ UNCHANGED svars

\* stop(): timestamp = process.hrtime(timestamp); return seconds + nanos/1e9
TimerStop ==
  /\ Len(returned) < MaxStops
  /\ timestamp' = HrtimeDiff(Hrtime(clock), timestamp)
  /\ returned' = Append(returned, timestamp')
  /\ UNCHANGED <<clock, started>>
  /\ UNCHANGED svars

NextTimer ==
  \/ \E d \in Ticks : Tick(d)
  \/ TimerStart
  \/ TimerReset
  \/ TimerStop

SpecTimer == Init /\ [][NextTimer]_vars

\* ================================================================== claims
Settled(c) == pc[c] \in {"resolved", "rejected"}

\* C1: when the promise of a fetch call that passed validation settles, the
\* deadline timer of that call is no longer armed (it has fired or has been
\* cleared).
C1_TimerReleasedAtSettle ==
  \A c \in Calls : (Settled(c) /\ c \in transport) => timerState[c] # "armed"

\* C2: when the deadline timer of a call fires while its transport call is
\* still pending, the call resolves to the returned outcome
\* Aborted("timeout") and the timer registry then holds no handle of it.
C2_TimeoutYieldsAborted ==
  [][\A c \in Calls :
       (pc[c] = "inflight" /\ timerState[c] = "armed" /\ timerState'[c] = "fired")
         => /\ pc'[c] = "resolved"
            /\ outcome'[c] = "Aborted(timeout)"
            /\ c \notin Range(timers')]_vars

\* C3: after a fetch call has settled, on any path, the timer registry holds
\* as many handles as before the call began: it holds no handle of a settled
\* call.
C3_NoLeakedHandles ==
  /\ \A c \in Calls : Settled(c) => c \notin Range(timers)
  /\ Len(timers) = Cardinality({c \in Calls : pc[c] \in {"inflight", "parsing"}})

\* C4: a fetch call whose method is not a string, or whose body is text that
\* is not JSON, rejects with the invalid-parameter error in the step that
\* starts it, and that step leaves the timer registry, every timer and the
\* set of transport invocations as they were.
NotAString == {V_five, V_undefined}
NotParseable == {V_invalid, V_empty, V_object}
C4_InvalidArgumentBeforeTimer ==
  [][\A c \in Calls :
       (/\ pc[c] = "idle"
        /\ pc'[c] # "idle"
        /\ (method'[c] \in NotAString \/ body'[c] \in NotParseable))
         => /\ pc'[c] = "rejected"
            /\ outcome'[c] \in {E_string, E_object}
            /\ timers' = timers
            /\ timerState' = timerState
            /\ transport' = transport]_vars

C4_Witness ==
  \E c \in Calls :
    /\ outcome[c] = E_object
    /\ body[c] = V_invalid
    /\ c \notin transport
    /\ Len(timers) >= 1

\* C5: a fetch call whose method is a string and whose body is absent
\* (undefined) is not rejected as an invalid argument: it arms its timer and
\* starts the transport call.
C5_AbsentBodyAccepted ==
  \A c \in Calls :
    (pc[c] # "idle" /\ is_string(method[c]) /\ body[c] = V_undefined)
      => /\ outcome[c] \notin {E_string, E_object}
         /\ c \in transport
         /\ timerState[c] # "none"

\* C6: every fetch call that passed validation owns exactly one handle of
\* the registry, found at its own index; a step of call a leaves the timer
\* of every other call b as it was; and while the process runs the timer of
\* a call whose transport call is pending stays armed.
C6_OwnTimerOnly ==
  /\ [](\A c \in transport :
          /\ Cardinality({i \in 1..Len(timers) : timers[i] = c}) = 1
          /\ timers[timeout[c] + 1] = c
          /\ (running /\ pc[c] = "inflight") => timerState[c] = "armed")
  /\ [][\A a \in Calls, b \in Calls :
          (a # b /\ pc'[a] # pc[a])
            => /\ timerState'[b] = timerState[b]
               /\ timeout'[b] = timeout[b]
               /\ b \in Range(timers) => b \in Range(timers')]_vars

C6_Witness ==
  \E a \in Calls, b \in Calls :
    /\ a # b
    /\ pc[a] = "parsing"
    /\ timerState[a] = "cleared"
    /\ pc[b] = "inflight"
    /\ timerState[b] = "armed"

\* C7: exit writes exactly one log record, first, at level error and of an
\* error value; then clears every handle of the registry, in registry order;
\* and last terminates the process with status 1.
C7_ExitOrder ==
  ~running =>
    /\ Len(out) = Len(timers) + 2
    /\ out[1].ev = "log"
    /\ out[1].level = "error"
    /\ out[1].stream = "console.error"
    /\ is_error(out[1].value)
    /\ \A i \in 1..Len(timers) : out[i + 1] = [ev |-> "clearTimeout", handle |-> timers[i]]
    /\ out[Len(out)] = [ev |-> "exit", code |-> 1]
    /\ Cardinality({i \in 1..Len(out) : out[i].ev = "log"}) = 1
    /\ Cardinality({i \in 1..Len(out) : out[i].ev = "exit"}) = 1

C7_Witness ==
  /\ ~running
  /\ Len(timers) >= 2
  /\ out[1].value = NewError(V_fatal)

C9_StopKeepsBaseline ==
  /\ \A i \in 1..Len(returned) : returned[i][1] >= 0
  /\ \A i \in 1..Len(returned), j \in 1..Len(returned) :
       i < j => Leq(returned[i], returned[j])
  /\ \A i \in 1..Len(returned) : Leq(returned[i], HrtimeDiff(clock, started))

\* C10: once the transport call of a fetch call has resolved, the deadline
\* timer of that call is cleared and its controller not aborted, and the
\* call no longer ends with the abort error.
C10_ClearedBeforeParsing ==
  /\ [](\A c \in Calls :
          (pc[c] = "parsing" \/ outcome[c] \in {"data", "ParseError"})
            => (timerState[c] = "cleared" /\ ~aborted[c]))
  /\ [][\A c \in Calls :
          pc[c] = "parsing" => (pc'[c] \in {"parsing", "resolved", "rejected"}
                                /\ outcome'[c] # "AbortError")]_vars

C10_Witness ==
  \E c \in Calls : pc[c] = "parsing" /\ timerState[c] = "cleared" /\ running
====
